---- MODULE Spec2Model ----
(***************************************************************************)
(* Model of personal_assistant/tools.py: the two tools fetch_weather_summary *)
(* and fetch_safety_brief, their helper _resolve_location, and the calls     *)
(* they make to the geocoding, forecast and news endpoints.                  *)
(*                                                                           *)
(* Text is a sequence of tokens.  A token is a maximal piece of text that    *)
(* the code treats as a unit: a run of non-blank characters of a given       *)
(* length (with the positions of its hyphens), one blank, one newline, or    *)
(* the literal markup "<br>".  An optional value (Python None, JSON null, a  *)
(* missing XML child) is <<>>, a present value v is <<v>>.                   *)
(***************************************************************************)
EXTENDS Integers, Sequences, FiniteSets, TLC

\* ------------------------------------------------------------------ bounds

NumCalls == 2
MaxFeed == 3
MaxDaily == 2
MaxHourly == 3
MaxDesc == 3

\* ---------------------------------------------------------------- helpers

None == <<>>
Some(v) == <<v>>

Min(a, b) == IF a <= b THEN a ELSE b
Max(a, b) == IF a >= b THEN a ELSE b

RECURSIVE SumLen(_)
SumLen(s) == IF s = <<>> THEN 0 ELSE Head(s).n + SumLen(Tail(s))

\* ------------------------------------------------------------------- text

Sp == [k |-> "sp", n |-> 1, hy |-> {}]
Nl == [k |-> "nl", n |-> 1, hy |-> {}]
Br == [k |-> "br", n |-> 4, hy |-> {}]
W(n) == [k |-> "w", n |-> n, hy |-> {}]
WH(n, hy) == [k |-> "w", n |-> n, hy |-> hy]

\* str.isspace of a token
IsSpace(t) == t.k \in {"sp", "nl"}

\* t.strip() == '': whitespace, or the empty string
Blank(t) == IsSpace(t) \/ t.n = 0

\* str.strip(): drop leading and trailing whitespace
RECURSIVE LStrip(_)
LStrip(s) == IF s # <<>> /\ IsSpace(Head(s)) THEN LStrip(Tail(s)) ELSE s

RECURSIVE RStrip(_)
RStrip(s) ==
  IF s # <<>> /\ IsSpace(s[Len(s)]) THEN RStrip(SubSeq(s, 1, Len(s) - 1)) ELSE s

Strip(s) == RStrip(LStrip(s))

\* (x or ""): None and "" both become ""
OrEmpty(o) == IF o = None THEN <<>> ELSE o[1]

\* description.replace("<br>", " ").replace("\n", " ")
ReplaceBreaks(s) == [i \in 1..Len(s) |-> IF s[i].k \in {"br", "nl"} THEN Sp ELSE s[i]]

\* ' '.join(text.strip().split()): runs of whitespace collapse to one blank,
\* none at either end
RECURSIVE CollapseWs(_)
CollapseWs(s) ==
  IF s = <<>> THEN <<>>
  ELSE IF IsSpace(Head(s))
       THEN LET r == LStrip(s) IN IF r = <<>> THEN <<>> ELSE <<Sp>> \o CollapseWs(r)
       ELSE <<Head(s)>> \o CollapseWs(Tail(s))

NormalizeWs(s) == CollapseWs(Strip(s))

\* -------------------------------------------------------- textwrap.shorten

SnippetWidth == 240

\* TextWrapper.placeholder, ' [...]', and its lstrip()
Placeholder == <<Sp, [k |-> "ph", n |-> 5, hy |-> {}]>>
PlaceholderLStripped == <<[k |-> "ph", n |-> 5, hy |-> {}]>>

\* the chunks that fit: the longest prefix whose total length is <= width
FitCount(chunks, width) ==
  Cardinality({j \in 1..Len(chunks) : SumLen(SubSeq(chunks, 1, j)) <= width})

\* chunk.rfind('-', 0, space_left)
RFindHyphen(chunk, space_left) ==
  LET c == {p \in chunk.hy : p < space_left}
  IN IF c = {} THEN -1 ELSE CHOOSE p \in c : \A q \in c : q <= p

\* _handle_long_word: where the over-long chunk is cut
LongWordEnd(chunk, space_left) ==
  LET hyphen == RFindHyphen(chunk, space_left)
  IN IF /\ chunk.n > space_left
        /\ hyphen > 0
        /\ \E p \in 0..(hyphen - 1) : p \notin chunk.hy
     THEN hyphen + 1
     ELSE space_left

\* chunk[:end]
ChunkPrefix(chunk, end) ==
  [k |-> chunk.k, n |-> Min(end, chunk.n), hy |-> {p \in chunk.hy : p < end}]

\* chunk[end:]
ChunkSuffix(chunk, end) ==
  [k |-> chunk.k, n |-> Max(chunk.n - end, 0),
   hy |-> {p - end : p \in {q \in chunk.hy : q >= end}}]

\* the loop that drops chunks from the end of the line until one is followed
\* by the placeholder within the width
\* (cur_line[-1].strip() and cur_len + len(placeholder) <= width)
PlaceholderFits(cur_line, width) ==
  SumLen(cur_line) + SumLen(Placeholder) <= width

RECURSIVE Truncate(_, _)
Truncate(cur_line, width) ==
  IF cur_line = <<>> THEN PlaceholderLStripped
  ELSE LET last == cur_line[Len(cur_line)]
       IN IF ~Blank(last) /\ PlaceholderFits(cur_line, width)
          THEN cur_line \o Placeholder
          ELSE Truncate(SubSeq(cur_line, 1, Len(cur_line) - 1), width)

\* TextWrapper(width, max_lines=1)._wrap_chunks, joined by fill()
WrapOneLine(chunks, width) ==
  IF chunks = <<>> THEN <<>>
  ELSE
    LET k == FitCount(chunks, width)
        fit == SubSeq(chunks, 1, k)
        rest == SubSeq(chunks, k + 1, Len(chunks))
        long == rest # <<>> /\ Head(rest).n > width
        end == IF long THEN LongWordEnd(Head(rest), width - SumLen(fit)) ELSE 0
        line1 == IF long THEN Append(fit, ChunkPrefix(Head(rest), end)) ELSE fit
        rest1 == IF long THEN <<ChunkSuffix(Head(rest), end)>> \o Tail(rest) ELSE rest
        line2 == IF line1 # <<>> /\ Blank(line1[Len(line1)])
                 THEN SubSeq(line1, 1, Len(line1) - 1) ELSE line1
        done == rest1 = <<>> \/ (Len(rest1) = 1 /\ Blank(rest1[1]))
    IN IF line2 = <<>> THEN <<>>
       ELSE IF done /\ SumLen(line2) <= width THEN line2
       ELSE Truncate(line2, width)

Shorten(text, width) == WrapOneLine(NormalizeWs(text), width)

\* snippet = textwrap.shorten(description.replace(...).replace(...), width=240)
SnippetUnshortened(description) == NormalizeWs(ReplaceBreaks(description))

Snippet(description) == Shorten(ReplaceBreaks(description), SnippetWidth)

\* --------------------------------------------------------------- sequences

\* s[:m], Python's slice: a negative m counts from the end
SliceTo(s, m) ==
  IF m >= 0 THEN SubSeq(s, 1, Min(m, Len(s)))
  ELSE SubSeq(s, 1, Max(Len(s) + m, 0))

\* d.get(key, default) of a mapping
Get(d, key, default) == IF key \in DOMAIN d THEN d[key] ELSE default

\* d.get(key): None when the key is missing
GetOpt(d, key) == Get(d, key, None)

\* a raised exception, or a value
Raise(e) == [err |-> e, val |-> None]
Return(v) == [err |-> "", val |-> v]

\* arr[idx] with a 0-based idx >= 0: IndexError beyond the end
Index(arr, idx) ==
  IF idx + 1 <= Len(arr) THEN Return(arr[idx + 1]) ELSE Raise("IndexError")

\* ----------------------------------------------------------- argument check

\* not location or not location.strip()
LocationMissingNoStrip(location) == location = <<>>

LocationMissing(location) == location = <<>> \/ Strip(location) = <<>>

\* ------------------------------------------------------ fetch_safety_brief

\* " travel warning OR safety advisory OR disruption OR protest"
QuerySuffix ==
  <<Sp, W(6), Sp, W(7), Sp, W(2), Sp, W(6), Sp, W(8), Sp, W(2), Sp, W(10), Sp, W(2),
    Sp, W(7)>>

NewsRequest(location) == [endpoint |-> "news", q |-> location \o QuerySuffix]

\* one <item>: the headline it yields, or <<>> when title or link is empty
HeadlineOf(item) ==
  LET title == Strip(OrEmpty(item.title))
      link == Strip(OrEmpty(item.link))
      pub_date == Strip(OrEmpty(item.pubDate))
      description == Strip(OrEmpty(item.description))
      snippet == Snippet(description)
  IN IF title = <<>> \/ link = <<>> THEN <<>>
     ELSE <<[title |-> title, link |-> link, published |-> pub_date,
             snippet |-> snippet]>>

RECURSIVE HeadlinesOf(_)
HeadlinesOf(items) ==
  IF items = <<>> THEN <<>> ELSE HeadlineOf(Head(items)) \o HeadlinesOf(Tail(items))

\* the items the loop visits: tree.findall(".//item")[:max_items]
ItemsVisitedAll(items, max_items) == items

ItemsVisited(items, max_items) == SliceTo(items, max_items)

\* the try block: ET.fromstring, then the loop over the items
ParseFeed(body, max_items) ==
  IF ~body.wellformed THEN Raise("ParseError")
  ELSE Return(HeadlinesOf(ItemsVisited(body.items, max_items)))

\* if not headlines: raise ValueError(...)
NoHeadlinesNever(headlines) == FALSE

NoHeadlines(headlines) == headlines = <<>>

SafetyBrief(location, headlines) ==
  [location |-> location, headlines |-> headlines, source |-> "Google News RSS"]

\* ------------------------------------------------------- _resolve_location

GeocodeRequest(location) == [endpoint |-> "geocode", name |-> location, count |-> 1]

\* ", ".join(part for part in parts if part)
RECURSIVE JoinParts(_)
JoinParts(parts) ==
  IF parts = <<>> THEN <<>>
  ELSE LET rest == JoinParts(Tail(parts))
           part == OrEmpty(Head(parts))
       IN IF part = <<>> THEN rest
          ELSE IF rest = <<>> THEN part
          ELSE part \o <<W(1), Sp>> \o rest

\* the outcome of one request: requests.get and raise_for_status
Transport(response) ==
  IF response.status = "timeout" THEN "Timeout"
  ELSE IF response.status = "http_error" THEN "HTTPError"
  ELSE ""

\* results = payload.get("results") or [] (a missing key, null and the empty
\* list are all <<>>); the top hit, or ValueError
TopHitLenient(results) ==
  IF results = <<>> THEN Return([name |-> None, admin1 |-> None, country |-> None,
                                 latitude |-> 0, longitude |-> 0])
  ELSE Return(results[1])

TopHit(results) ==
  IF results = <<>> THEN Raise("ValueError: unable to geocode") ELSE Return(results[1])

ResolveLocation(response) ==
  IF Transport(response) # "" THEN Raise(Transport(response))
  ELSE LET hit == TopHit(Get(response.body, "results", <<>>))
       IN IF hit.err # "" THEN hit
          ELSE LET top_hit == hit.val
               IN Return([lat |-> top_hit.latitude, lon |-> top_hit.longitude,
                          resolved_name |-> JoinParts(<<top_hit.name, top_hit.admin1,
                                                        top_hit.country>>)])

\* --------------------------------------------------- fetch_weather_summary

DailyFields ==
  {"temperature_2m_max", "temperature_2m_min", "precipitation_probability_max",
   "sunrise", "sunset", "uv_index_max", "wind_speed_10m_max", "precipitation_sum"}

HourlyFields ==
  {"temperature_2m", "precipitation_probability", "weathercode", "relativehumidity_2m"}

ForecastRequest(resolved, include_hourly) ==
  [endpoint |-> "forecast", latitude |-> resolved.lat, longitude |-> resolved.lon,
   daily |-> DailyFields, hourly |-> IF include_hourly THEN HourlyFields ELSE {}]

\* series.get(field, [None])[idx]
FieldAt(series, field, idx) == Index(Get(series, field, <<None>>), idx)

\* the first exception raised among the evaluations rs, in order
RECURSIVE FirstError(_)
FirstError(rs) ==
  IF rs = <<>> THEN ""
  ELSE IF Head(rs).err # "" THEN Head(rs).err ELSE FirstError(Tail(rs))

\* the dict appended for the day at idx
DailyEntry(daily, idx) ==
  LET date == Index(Get(daily, "time", <<>>), idx)
      max_temp_c == FieldAt(daily, "temperature_2m_max", idx)
      min_temp_c == FieldAt(daily, "temperature_2m_min", idx)
      precip_probability == FieldAt(daily, "precipitation_probability_max", idx)
      precipitation_total_mm == FieldAt(daily, "precipitation_sum", idx)
      uv_index_max == FieldAt(daily, "uv_index_max", idx)
      wind_speed_max_kmh == FieldAt(daily, "wind_speed_10m_max", idx)
      sunrise == FieldAt(daily, "sunrise", idx)
      sunset == FieldAt(daily, "sunset", idx)
      e == FirstError(<<date, max_temp_c, min_temp_c, precip_probability,
                        precipitation_total_mm, uv_index_max, wind_speed_max_kmh,
                        sunrise, sunset>>)
  IN IF e # "" THEN Raise(e)
     ELSE Return([date |-> date.val,
                  summary |-> [max_temp_c |-> max_temp_c.val,
                               min_temp_c |-> min_temp_c.val,
                               precip_probability |-> precip_probability.val,
                               precipitation_total_mm |-> precipitation_total_mm.val,
                               uv_index_max |-> uv_index_max.val,
                               wind_speed_max_kmh |-> wind_speed_max_kmh.val],
                  sunrise |-> sunrise.val,
                  sunset |-> sunset.val])

\* days_available = min(days, len(daily.get("time", [])))
DaysAvailableAll(days, daily) == Len(Get(daily, "time", <<>>))

DaysAvailable(days, daily) == Min(days, Len(Get(daily, "time", <<>>)))

\* for idx in range(days_available): daily_forecast.append({...})
RECURSIVE DailyLoop(_, _, _)
DailyLoop(daily, idx, days_available) ==
  IF idx >= days_available THEN Return(<<>>)
  ELSE LET entry == DailyEntry(daily, idx)
       IN IF entry.err # "" THEN entry
          ELSE LET rest == DailyLoop(daily, idx + 1, days_available)
               IN IF rest.err # "" THEN rest ELSE Return(<<entry.val>> \o rest.val)

\* daily = payload.get("daily", {}) or {}
DailyOf(payload) == Get(payload, "daily", <<>>)

DailyForecast(payload, days) ==
  DailyLoop(DailyOf(payload), 0, DaysAvailable(days, DailyOf(payload)))

\* current = payload.get("current_weather", {}) or {}, reshaped
CurrentConditions(payload) ==
  LET current == Get(payload, "current_weather", <<>>)
  IN [temperature_c |-> GetOpt(current, "temperature"),
      windspeed_kmh |-> GetOpt(current, "windspeed"),
      weather_code |-> GetOpt(current, "weathercode"),
      observation_time |-> GetOpt(current, "time")]

\* datetime.fromisoformat(time_str), then .replace(tzinfo=utc) for a naive
\* timestamp and .astimezone(utc) for an aware one; hours since the epoch
ToUTC(time_str) ==
  IF ~time_str.iso THEN Raise("ValueError: invalid isoformat")
  ELSE IF time_str.offset = None THEN Return(time_str.wall)
  ELSE Return(time_str.wall - time_str.offset[1])

\* timedelta(hours=24)
WindowHours == 24

\* if timestamp < now: continue
BeforeWindowStrict(timestamp, now) == timestamp <= now

BeforeWindow(timestamp, now) == timestamp < now

\* if timestamp > now + timedelta(hours=24): break
PastWindowNever(timestamp, now) == FALSE

PastWindow(timestamp, now) == timestamp > now + WindowHours

\* the dict appended for the hour at idx
HourlyEntry(hourly_data, time_str, idx) ==
  LET temperature_c == FieldAt(hourly_data, "temperature_2m", idx)
      precip_probability == FieldAt(hourly_data, "precipitation_probability", idx)
      relative_humidity == FieldAt(hourly_data, "relativehumidity_2m", idx)
      weather_code == FieldAt(hourly_data, "weathercode", idx)
      e == FirstError(<<temperature_c, precip_probability, relative_humidity,
                        weather_code>>)
  IN IF e # "" THEN Raise(e)
     ELSE Return([time |-> time_str,
                  temperature_c |-> temperature_c.val,
                  precip_probability |-> precip_probability.val,
                  relative_humidity |-> relative_humidity.val,
                  weather_code |-> weather_code.val])

\* for idx, time_str in enumerate(base_times): ... continue / break / append
RECURSIVE HourlyLoop(_, _, _, _)
HourlyLoop(hourly_data, base_times, idx, now) ==
  IF idx >= Len(base_times) THEN Return(<<>>)
  ELSE LET time_str == base_times[idx + 1]
           timestamp == ToUTC(time_str)
       IN IF timestamp.err # "" THEN timestamp
          ELSE IF BeforeWindow(timestamp.val, now)
               THEN HourlyLoop(hourly_data, base_times, idx + 1, now)
          ELSE IF PastWindow(timestamp.val, now) THEN Return(<<>>)
          ELSE LET entry == HourlyEntry(hourly_data, time_str, idx)
               IN IF entry.err # "" THEN entry
                  ELSE LET rest == HourlyLoop(hourly_data, base_times, idx + 1, now)
                       IN IF rest.err # "" THEN rest
                          ELSE Return(<<entry.val>> \o rest.val)

Next24Hours(payload, now) ==
  HourlyLoop(payload["hourly"], Get(payload["hourly"], "time", <<>>), 0, now)

\* if include_hourly and "hourly" in payload
AttachHourlyUnasked(include_hourly, payload) == "hourly" \in DOMAIN payload

AttachHourly(include_hourly, payload) == include_hourly /\ "hourly" \in DOMAIN payload

\* the summary dict, with hourly_outlook set when the hourly block ran
WeatherSummary(resolved, payload, daily_forecast, include_hourly, now) ==
  LET summary == [location |-> resolved.resolved_name,
                  latitude |-> resolved.lat,
                  longitude |-> resolved.lon,
                  current_conditions |-> CurrentConditions(payload),
                  daily_forecast |-> daily_forecast,
                  source |-> "Open-Meteo (https://open-meteo.com)"]
  IN IF AttachHourly(include_hourly, payload)
     THEN LET next_24_hours == Next24Hours(payload, now)
          IN IF next_24_hours.err # "" THEN next_24_hours
             ELSE Return(summary @@ ("hourly_outlook" :> next_24_hours.val))
     ELSE Return(summary)

\* ------------------------------------------------------------------ inputs

BoundedSeq(S, n) == UNION {[1..m -> S] : m \in 0..n}

Restrict(d, keys) == [key \in keys |-> d[key]]

\* location arguments: empty, blank, a place name, a padded place name
Locations == {<<>>, <<Sp>>, <<W(6)>>, <<Sp, W(6), Sp>>}

Failures(body) ==
  {[status |-> "timeout", body |-> body], [status |-> "http_error", body |-> body]}

Ok(body) == [status |-> "ok", body |-> body]

Hit1 ==
  [name |-> Some(<<W(6)>>), admin1 |-> Some(<<W(9)>>), country |-> Some(<<W(5)>>),
   latitude |-> 27, longitude |-> 76]

Hit2 ==
  [name |-> Some(<<W(5)>>), admin1 |-> None, country |-> Some(<<>>),
   latitude |-> 49, longitude |-> 2]

GeoResponses ==
  Failures(<<>>)
    \cup {Ok(<<>>), Ok([results |-> <<>>]), Ok([results |-> <<Hit1>>]),
          Ok([results |-> <<Hit2, Hit1>>])}

\* the value of a series at a position: a JSON number, told apart by field
Val(field, i) == Some(<<field, i>>)

Date(i) == 20 + i

FullDaily(n) ==
  [f \in DailyFields \cup {"time"} |->
     [i \in 1..n |-> IF f = "time" THEN Date(i) ELSE Val(f, i)]]

\* the daily object: complete, or with one series missing, one position short,
\* or holding a JSON null
DailyObjects ==
  UNION {
    {FullDaily(n)}
      \cup {Restrict(FullDaily(n), (DailyFields \cup {"time"}) \ {f}) :
              f \in DailyFields \cup {"time"}}
      \cup {[FullDaily(n) EXCEPT ![f] = SubSeq(@, 1, Len(@) - 1)] :
              f \in {g \in DailyFields : n >= 1}}
      \cup {[FullDaily(n) EXCEPT ![f] = [i \in 1..n |-> None]] :
              f \in {g \in {"sunrise"} : n >= 1}}
    : n \in 0..MaxDaily}

\* the instants at which the summary is built, in hours since the epoch
Nows == {1000}

TimeStr(wall, offset) == [iso |-> TRUE, wall |-> wall, offset |-> offset]

\* hourly timestamps around the window of a call made at now
TimeStrsAround(now) ==
  {TimeStr(now - 1, None),
   TimeStr(now - 1, Some(0 - 1)),
   TimeStr(now + WindowHours + 2, Some(2)),
   TimeStr(now + WindowHours, None),
   TimeStr(now + WindowHours - 1, Some(0 - 2))}

TimeStrs == UNION {TimeStrsAround(now) : now \in Nows}

BadTimeStr == [iso |-> FALSE, wall |-> 0, offset |-> None]

FullHourly(times) ==
  [f \in HourlyFields \cup {"time"} |->
     IF f = "time" THEN times ELSE [i \in 1..Len(times) |-> Val(f, i)]]

PlainTimes ==
  LET now == CHOOSE t \in Nows : TRUE
  IN <<TimeStr(now - 1, None), TimeStr(now + 1, None), TimeStr(now + 2, Some(0))>>

HourlyObjects ==
  {FullHourly(times) : times \in BoundedSeq(TimeStrs, MaxHourly)}
    \cup {FullHourly(<<BadTimeStr>>), FullHourly(<<PlainTimes[2], BadTimeStr>>)}
    \cup {Restrict(FullHourly(PlainTimes), (HourlyFields \cup {"time"}) \ {f}) :
            f \in HourlyFields \cup {"time"}}
    \cup {[FullHourly(PlainTimes) EXCEPT ![f] = SubSeq(@, 1, Len(@) - 1)] :
            f \in HourlyFields}

Current ==
  [temperature |-> Some(31), windspeed |-> Some(7), weathercode |-> Some(2),
   time |-> Some(5)]

Payload(current, daily, hourly) ==
  LET keys == {key \in {"current_weather", "daily", "hourly"} :
                 \/ key = "current_weather" /\ current # None
                 \/ key = "daily" /\ daily # None
                 \/ key = "hourly" /\ hourly # None}
  IN [key \in keys |->
        IF key = "current_weather" THEN current[1]
        ELSE IF key = "daily" THEN daily[1] ELSE hourly[1]]

\* forecast bodies: every daily object with a plain hourly object or none, and
\* every hourly object with a plain daily object
ForecastPayloads ==
  {Payload(Some(Current), Some(d), h) :
     d \in DailyObjects, h \in {None, Some(FullHourly(PlainTimes))}}
    \cup {Payload(Some(Current), Some(FullDaily(1)), Some(h)) : h \in HourlyObjects}
    \cup {Payload(None, None, None), Payload(Some(Restrict(Current, {"time"})), None,
                                             Some(FullHourly(PlainTimes)))}

ForecastResponses == Failures(<<>>) \cup {Ok(payload) : payload \in ForecastPayloads}

Item(title, link, pubDate, description) ==
  [title |-> title, link |-> link, pubDate |-> pubDate, description |-> description]

\* items that qualify (two, told apart by title and link) and items that do not
GoodItems ==
  {Item(Some(<<Sp, W(3), Sp>>), Some(<<W(8)>>), Some(<<W(5), Sp>>),
        Some(<<W(4), Br, W(4)>>)),
   Item(Some(<<W(4)>>), Some(<<Nl, W(9)>>), None, None)}

BadItems ==
  {Item(None, Some(<<W(7)>>), None, None),
   Item(Some(<<Sp>>), Some(<<W(7)>>), None, None),
   Item(Some(<<W(5)>>), None, None, None),
   Item(Some(<<W(5)>>), Some(<<Sp, Nl>>), None, None)}

\* pieces of a description: words about the width of a snippet, a word longer
\* than it with a hyphen inside, whitespace and markup
DescTokens ==
  {W(SnippetWidth \div 2), W(SnippetWidth \div 2 - 1),
   W(SnippetWidth - SumLen(Placeholder)), W(SnippetWidth - SumLen(Placeholder) + 1),
   WH(SnippetWidth + 60, {0, 100}), W(SnippetWidth + 1), Sp, Br}

Descriptions == BoundedSeq(DescTokens, MaxDesc)

Feed(items) == [wellformed |-> TRUE, items |-> items]

Malformed == [wellformed |-> FALSE, items |-> <<>>]

FeedBodies ==
  {Feed(items) : items \in BoundedSeq(GoodItems \cup BadItems, MaxFeed)}
    \cup {Feed(<<Item(Some(<<W(3)>>), Some(<<W(8)>>), None, Some(d))>>) :
            d \in Descriptions}
    \cup {Malformed}

NewsResponses == Failures(Malformed) \cup {Ok(body) : body \in FeedBodies}

\* what a call may be given and what the endpoints may answer: everything, for
\* one call at a time; a few cases of each kind, for concurrent calls
Rich ==
  [locations |-> Locations,
   days |-> (0 - 1)..(MaxDaily + 1),
   include_hourly |-> BOOLEAN,
   max_items |-> (0 - 1)..(MaxFeed + 1),
   geo |-> GeoResponses,
   forecast |-> ForecastResponses,
   news |-> NewsResponses,
   nows |-> Nows]

Small ==
  [locations |-> {<<Sp>>, <<W(6)>>},
   days |-> {1},
   include_hourly |-> {TRUE},
   max_items |-> {2},
   geo |-> Failures(<<>>) \cup {Ok([results |-> <<Hit1>>])},
   forecast |-> {[status |-> "http_error", body |-> <<>>],
                 Ok(Payload(Some(Current), Some(FullDaily(MaxDaily)),
                            Some(FullHourly(PlainTimes)))),
                 Ok(Payload(Some(Current),
                            Some(Restrict(FullDaily(MaxDaily),
                                          (DailyFields \cup {"time"}) \ {"sunset"})),
                            None))},
   news |-> {Ok(Malformed)}
              \cup {Ok(Feed(items)) :
                      items \in {<<>>} \cup {<<g>> : g \in GoodItems}
                                 \cup {<<b, g>> : b \in BadItems, g \in GoodItems}},
   nows |-> Nows]

\* ------------------------------------------------------------------- state

Calls == 1..NumCalls

VARIABLES
  pc,              \* where each call is: idle, waiting for an endpoint, in a loop,
                   \* returned or raised
  args,            \* the arguments each call was made with
  sent,            \* the requests each call has issued, in order
  responses,       \* the responses each call has received, in order
  clock,           \* datetime.now() as read by each call, once read
  daily_forecast,  \* the list daily_forecast of each frame
  headlines,       \* the list headlines of each frame
  result,          \* the value each call returned
  err,             \* the exception each call raised
  log              \* the locations for which a parse warning was logged

vars ==
  <<pc, args, sent, responses, clock, daily_forecast, headlines, result, err, log>>

NoArgs == [tool |-> "none"]

\* the frame holding the locals of a call: its own
SharedFrame(c) == CHOOSE f \in Calls : \A g \in Calls : f <= g

Frame(c) == c

Init ==
  /\ pc = [c \in Calls |-> "idle"]
  /\ args = [c \in Calls |-> NoArgs]
  /\ sent = [c \in Calls |-> <<>>]
  /\ responses = [c \in Calls |-> <<>>]
  /\ clock = [c \in Calls |-> None]
  /\ daily_forecast = [c \in Calls |-> <<>>]
  /\ headlines = [c \in Calls |-> <<>>]
  /\ result = [c \in Calls |-> None]
  /\ err = [c \in Calls |-> ""]
  /\ log = {}

\* the call ends by raising e
Raises(c, e) ==
  /\ pc' = [pc EXCEPT ![c] = "raised"]
  /\ err' = [err EXCEPT ![c] = e]

\* the locals of a call, read back from what it received
Resolved(c) == ResolveLocation(responses[c][1]).val
PayloadOf(c) == responses[c][2].body
FeedOf(c) == responses[c][1].body

\* ------------------------------------------- fetch_weather_summary, by step

\* the call, up to the geocoding request
FetchWeatherSummary(c, I) ==
  /\ pc[c] = "idle"
  /\ \E location \in I.locations, days \in I.days, include_hourly \in I.include_hourly :
       /\ args' = [args EXCEPT ![c] = [tool |-> "weather", location |-> location,
                                       days |-> days,
                                       include_hourly |-> include_hourly]]
       /\ IF LocationMissing(location)
          THEN /\ Raises(c, "ValueError: location is required")
               /\ UNCHANGED sent
          ELSE /\ pc' = [pc EXCEPT ![c] = "geocoding"]
               /\ sent' = [sent EXCEPT ![c] = Append(@, GeocodeRequest(location))]
               /\ UNCHANGED err
  /\ UNCHANGED <<responses, clock, daily_forecast, headlines, result, log>>

\* the geocoding answer, up to the forecast request
GeocodeResponse(c, I) ==
  /\ pc[c] = "geocoding"
  /\ \E response \in I.geo :
       LET r == ResolveLocation(response)
       IN /\ responses' = [responses EXCEPT ![c] = Append(@, response)]
          /\ IF r.err # ""
             THEN /\ Raises(c, r.err)
                  /\ UNCHANGED sent
             ELSE /\ pc' = [pc EXCEPT ![c] = "forecasting"]
                  /\ sent' = [sent EXCEPT ![c] =
                                Append(@, ForecastRequest(r.val, args[c].include_hourly))]
                  /\ UNCHANGED err
  /\ UNCHANGED <<args, clock, daily_forecast, headlines, result, log>>

\* the forecast answer, up to daily_forecast = []
ForecastResponse(c, I) ==
  /\ pc[c] = "forecasting"
  /\ \E response \in I.forecast :
       /\ responses' = [responses EXCEPT ![c] = Append(@, response)]
       /\ IF Transport(response) # ""
          THEN /\ Raises(c, Transport(response))
               /\ UNCHANGED daily_forecast
          ELSE /\ pc' = [pc EXCEPT ![c] = "daily"]
               /\ daily_forecast' = [daily_forecast EXCEPT ![Frame(c)] = <<>>]
               /\ UNCHANGED err
  /\ UNCHANGED <<args, sent, clock, headlines, result, log>>

\* the loop that fills daily_forecast
BuildDailyForecast(c) ==
  /\ pc[c] = "daily"
  /\ LET r == DailyForecast(PayloadOf(c), args[c].days)
     IN IF r.err # ""
        THEN /\ Raises(c, r.err)
             /\ UNCHANGED daily_forecast
        ELSE /\ pc' = [pc EXCEPT ![c] = "summary"]
             /\ daily_forecast' = [daily_forecast EXCEPT ![Frame(c)] = @ \o r.val]
             /\ UNCHANGED err
  /\ UNCHANGED <<args, sent, responses, clock, headlines, result, log>>

\* the summary dict, the hourly block and the return
ReturnWeatherSummary(c, I) ==
  /\ pc[c] = "summary"
  /\ \E now \in I.nows :
       LET r == WeatherSummary(Resolved(c), PayloadOf(c), daily_forecast[Frame(c)],
                               args[c].include_hourly, now)
       IN /\ clock' = [clock EXCEPT ![c] =
                         IF AttachHourly(args[c].include_hourly, PayloadOf(c))
                         THEN Some(now) ELSE None]
          /\ IF r.err # ""
             THEN /\ Raises(c, r.err)
                  /\ UNCHANGED result
             ELSE /\ pc' = [pc EXCEPT ![c] = "returned"]
                  /\ result' = [result EXCEPT ![c] = Some(r.val)]
                  /\ UNCHANGED err
  /\ UNCHANGED <<args, sent, responses, daily_forecast, headlines, log>>

\* ---------------------------------------------- fetch_safety_brief, by step

\* the call, up to the news request
FetchSafetyBrief(c, I) ==
  /\ pc[c] = "idle"
  /\ \E location \in I.locations, max_items \in I.max_items :
       /\ args' = [args EXCEPT ![c] = [tool |-> "safety", location |-> location,
                                       max_items |-> max_items]]
       /\ IF LocationMissing(location)
          THEN /\ Raises(c, "ValueError: location is required")
               /\ UNCHANGED sent
          ELSE /\ pc' = [pc EXCEPT ![c] = "news"]
               /\ sent' = [sent EXCEPT ![c] = Append(@, NewsRequest(location))]
               /\ UNCHANGED err
  /\ UNCHANGED <<responses, clock, daily_forecast, headlines, result, log>>

\* the news answer, up to headlines = []
NewsResponse(c, I) ==
  /\ pc[c] = "news"
  /\ \E response \in I.news :
       /\ responses' = [responses EXCEPT ![c] = Append(@, response)]
       /\ IF Transport(response) # ""
          THEN /\ Raises(c, Transport(response))
               /\ UNCHANGED headlines
          ELSE /\ pc' = [pc EXCEPT ![c] = "parsing"]
               /\ headlines' = [headlines EXCEPT ![Frame(c)] = <<>>]
               /\ UNCHANGED err
  /\ UNCHANGED <<args, sent, clock, daily_forecast, result, log>>

\* the try block: parse, loop, and on any exception log and re-raise
ParseSafetyFeed(c) ==
  /\ pc[c] = "parsing"
  /\ LET r == ParseFeed(FeedOf(c), args[c].max_items)
     IN IF r.err # ""
        THEN /\ Raises(c, r.err)
             /\ log' = log \cup {args[c].location}
             /\ UNCHANGED headlines
        ELSE /\ pc' = [pc EXCEPT ![c] = "parsed"]
             /\ headlines' = [headlines EXCEPT ![Frame(c)] = @ \o r.val]
             /\ UNCHANGED <<err, log>>
  /\ UNCHANGED <<args, sent, responses, clock, daily_forecast, result>>

\* the check that headlines is not empty, and the return
ReturnSafetyBrief(c) ==
  /\ pc[c] = "parsed"
  /\ IF NoHeadlines(headlines[Frame(c)])
     THEN /\ Raises(c, "ValueError: no headlines")
          /\ UNCHANGED result
     ELSE /\ pc' = [pc EXCEPT ![c] = "returned"]
          /\ result' = [result EXCEPT ![c] =
                          Some(SafetyBrief(args[c].location, headlines[Frame(c)]))]
          /\ UNCHANGED err
  /\ UNCHANGED <<args, sent, responses, clock, daily_forecast, headlines, log>>

\* ---------------------------------------------------------- specifications

FirstCall == CHOOSE c \in Calls : \A d \in Calls : c <= d

\* one call, with every argument and every answer of the endpoints
Next ==
  \/ FetchWeatherSummary(FirstCall, Rich)
  \/ GeocodeResponse(FirstCall, Rich)
  \/ ForecastResponse(FirstCall, Rich)
  \/ BuildDailyForecast(FirstCall)
  \/ ReturnWeatherSummary(FirstCall, Rich)
  \/ FetchSafetyBrief(FirstCall, Rich)
  \/ NewsResponse(FirstCall, Rich)
  \/ ParseSafetyFeed(FirstCall)
  \/ ReturnSafetyBrief(FirstCall)

Spec == Init /\ [][Next]_vars

\* concurrent calls, their steps interleaved
NextConc ==
  \E c \in Calls :
    \/ FetchWeatherSummary(c, Small)
    \/ GeocodeResponse(c, Small)
    \/ ForecastResponse(c, Small)
    \/ BuildDailyForecast(c)
    \/ ReturnWeatherSummary(c, Small)
    \/ FetchSafetyBrief(c, Small)
    \/ NewsResponse(c, Small)
    \/ ParseSafetyFeed(c)
    \/ ReturnSafetyBrief(c)

SpecConc == Init /\ [][NextConc]_vars

\* ------------------------------------------------- the tools, run alone

Outcome(r) == [result |-> IF r.err # "" THEN None ELSE Some(r.val), err |-> r.err]

\* fetch_weather_summary from its arguments, the answers it got and the time
\* it read, with no other call running
WeatherAlone(a, rs, clk) ==
  IF LocationMissing(a.location) THEN Raise("ValueError: location is required")
  ELSE LET resolved == ResolveLocation(rs[1])
       IN IF resolved.err # "" THEN resolved
          ELSE IF Transport(rs[2]) # "" THEN Raise(Transport(rs[2]))
          ELSE LET daily == DailyForecast(rs[2].body, a.days)
               IN IF daily.err # "" THEN daily
                  ELSE WeatherSummary(resolved.val, rs[2].body, daily.val,
                                      a.include_hourly, OrEmpty(clk))

\* fetch_safety_brief from its arguments and the answer it got, with no other
\* call running
SafetyAlone(a, rs) ==
  IF LocationMissing(a.location) THEN Raise("ValueError: location is required")
  ELSE IF Transport(rs[1]) # "" THEN Raise(Transport(rs[1]))
  ELSE LET parsed == ParseFeed(rs[1].body, a.max_items)
       IN IF parsed.err # "" THEN parsed
          ELSE IF NoHeadlines(parsed.val) THEN Raise("ValueError: no headlines")
          ELSE Return(SafetyBrief(a.location, parsed.val))

\* ------------------------------------------------------------------ claims

Done(c) == pc[c] \in {"returned", "raised"}
Called(c, tool) == args[c].tool = tool
Returned(c, tool) == args[c].tool = tool /\ pc[c] = "returned"

\* C1: a call of either tool whose location is empty or only whitespace has
\* raised "location is required" and has issued no request at all.
C1_BlankLocationRaisesFirst ==
  \A c \in Calls :
    (args[c].tool \in {"weather", "safety"} /\ Strip(args[c].location) = <<>>)
      => /\ pc[c] = "raised"
         /\ err[c] = "ValueError: location is required"
         /\ sent[c] = <<>>
         /\ responses[c] = <<>>
         /\ result[c] = None

C1_Witness ==
  \E c \in Calls :
    /\ Called(c, "safety")
    /\ args[c].location # <<>>
    /\ Strip(args[c].location) = <<>>
    /\ pc[c] = "raised"

\* C2: a brief that fetch_safety_brief returned has at least one headline,
\* whatever the feed and max_items were.
C2_BriefNeverEmpty ==
  \A c \in Calls : Returned(c, "safety") => Len(result[c][1].headlines) >= 1

C2_Witness ==
  \E c \in Calls :
    /\ Returned(c, "safety")
    /\ Len(FeedOf(c).items) > Len(result[c][1].headlines)
    /\ Len(result[c][1].headlines) >= 1

\* C3: a brief that fetch_safety_brief returned has at most max_items
\* headlines, each with a non-empty title and a non-empty link.
C3_AtMostMaxItems ==
  \A c \in Calls :
    Returned(c, "safety") =>
      LET hs == result[c][1].headlines
      IN /\ Len(hs) <= args[c].max_items
         /\ \A i \in 1..Len(hs) : hs[i].title # <<>> /\ hs[i].link # <<>>

\* the instant a timestamp denotes, in hours since the epoch: a timestamp
\* without offset is taken as UTC
Instant(time_str) ==
  time_str.wall - (IF time_str.offset = None THEN 0 ELSE time_str.offset[1])

HasHourly(c) == Returned(c, "weather") /\ "hourly_outlook" \in DOMAIN result[c][1]

\* C4 as stated: every entry of hourly_outlook has now <= t < now + 24h.
C4_HalfOpenWindow ==
  \A c \in Calls :
    HasHourly(c) =>
      \A i \in 1..Len(result[c][1].hourly_outlook) :
        LET t == Instant(result[c][1].hourly_outlook[i].time)
        IN clock[c][1] <= t /\ t < clock[c][1] + WindowHours

\* C4, amended: every entry of hourly_outlook has now <= t <= now + 24h; an
\* entry at exactly now + 24h is included.
C4_ClosedWindow ==
  \A c \in Calls :
    HasHourly(c) =>
      \A i \in 1..Len(result[c][1].hourly_outlook) :
        LET t == Instant(result[c][1].hourly_outlook[i].time)
        IN clock[c][1] <= t /\ t <= clock[c][1] + WindowHours

C4_Witness ==
  \E c \in Calls :
    /\ HasHourly(c)
    /\ \E i \in 1..Len(result[c][1].hourly_outlook) :
         /\ Instant(result[c][1].hourly_outlook[i].time) = clock[c][1] + WindowHours
         /\ result[c][1].hourly_outlook[i].time.offset # None

\* the upstream daily object of a call and the length of its time series
UpstreamDaily(c) == Get(responses[c][2].body, "daily", <<>>)
UpstreamDays(c) == Len(Get(UpstreamDaily(c), "time", <<>>))

\* the value a series of the upstream object holds at position i (from 1):
\* null where the series is missing or ends before i
UpstreamAt(series, field, i) ==
  IF field \in DOMAIN series /\ i <= Len(series[field]) THEN series[field][i] ELSE None

\* the entry at position i is built from the upstream day at position i
FromUpstreamDay(entry, daily, i) ==
  /\ entry.date = daily["time"][i]
  /\ entry.summary.max_temp_c = UpstreamAt(daily, "temperature_2m_max", i)
  /\ entry.summary.min_temp_c = UpstreamAt(daily, "temperature_2m_min", i)
  /\ entry.summary.precip_probability
       = UpstreamAt(daily, "precipitation_probability_max", i)
  /\ entry.summary.precipitation_total_mm = UpstreamAt(daily, "precipitation_sum", i)
  /\ entry.summary.uv_index_max = UpstreamAt(daily, "uv_index_max", i)
  /\ entry.summary.wind_speed_max_kmh = UpstreamAt(daily, "wind_speed_10m_max", i)
  /\ entry.sunrise = UpstreamAt(daily, "sunrise", i)
  /\ entry.sunset = UpstreamAt(daily, "sunset", i)

\* C5 as stated: daily_forecast has exactly min(days, upstream days) entries,
\* the i-th built from the i-th upstream day, for every integer days.
C5_LengthIsMin ==
  \A c \in Calls :
    Returned(c, "weather") =>
      LET df == result[c][1].daily_forecast
      IN /\ Len(df) = Min(args[c].days, UpstreamDays(c))
         /\ \A i \in 1..Len(df) : FromUpstreamDay(df[i], UpstreamDaily(c), i)

\* C5, amended: daily_forecast has exactly max(0, min(days, upstream days))
\* entries, the i-th built from the i-th upstream day.
C5_LengthIsClampedMin ==
  \A c \in Calls :
    Returned(c, "weather") =>
      LET df == result[c][1].daily_forecast
      IN /\ Len(df) = Max(0, Min(args[c].days, UpstreamDays(c)))
         /\ \A i \in 1..Len(df) : FromUpstreamDay(df[i], UpstreamDaily(c), i)

C5_Witness ==
  \E c \in Calls :
    /\ Returned(c, "weather")
    /\ args[c].days >= 1
    /\ args[c].days < UpstreamDays(c)
    /\ Len(result[c][1].daily_forecast) = args[c].days

\* the geocoding answer is a failure: no answer in time, an error status, or
\* no result
GeocodingFailed(response) ==
  response.status # "ok" \/ Get(response.body, "results", <<>>) = <<>>

FailureOf(response) ==
  IF response.status = "timeout" THEN "Timeout"
  ELSE IF response.status = "http_error" THEN "HTTPError"
  ELSE "ValueError: unable to geocode"

\* C6: in fetch_weather_summary a failed geocoding or forecast request ends
\* the call with that failure and no summary; the failed request was issued
\* once, and after a geocoding failure no forecast request was issued.
C6_UpstreamFailureAborts ==
  \A c \in Calls :
    Called(c, "weather") =>
      /\ (Len(responses[c]) >= 1 /\ GeocodingFailed(responses[c][1]))
           => /\ pc[c] = "raised"
              /\ err[c] = FailureOf(responses[c][1])
              /\ result[c] = None
              /\ Len(sent[c]) = 1
              /\ sent[c][1].endpoint = "geocode"
      /\ (Len(responses[c]) >= 2 /\ responses[c][2].status # "ok")
           => /\ pc[c] = "raised"
              /\ err[c] = FailureOf(responses[c][2])
              /\ result[c] = None
              /\ Len(sent[c]) = 2
              /\ sent[c][2].endpoint = "forecast"
      /\ Len(sent[c]) <= 2
      /\ Len(responses[c]) <= Len(sent[c])

C6_Witness ==
  \E c \in Calls :
    /\ Called(c, "weather")
    /\ Len(responses[c]) = 1
    /\ responses[c][1].status = "ok"
    /\ GeocodingFailed(responses[c][1])
    /\ pc[c] = "raised"

\* C7: every headline of a returned brief has a snippet of at most 240
\* characters.
C7_SnippetWithinWidth ==
  \A c \in Calls :
    Returned(c, "safety") =>
      \A i \in 1..Len(result[c][1].headlines) :
        SumLen(result[c][1].headlines[i].snippet) <= SnippetWidth

C7_Witness ==
  \E c \in Calls :
    /\ Returned(c, "safety")
    /\ Len(FeedOf(c).items) = 1
    /\ LET description == OrEmpty(FeedOf(c).items[1].description)
       IN /\ Len(description) = 1
          /\ description[1].n > SnippetWidth
    /\ result[c][1].headlines[1].snippet = PlaceholderLStripped

\* C8: whatever the interleaving of the steps of concurrent calls, a call
\* that has ended has the outcome it has when run alone with the same
\* arguments and the same answers from the endpoints.
C8_OutcomeAsAlone ==
  \A c \in Calls :
    Done(c) =>
      [result |-> result[c], err |-> err[c]]
        = Outcome(IF Called(c, "weather")
                  THEN WeatherAlone(args[c], responses[c], clock[c])
                  ELSE SafetyAlone(args[c], responses[c]))

C8_Witness ==
  /\ \A c \in Calls : Done(c)
  /\ \E c, d \in Calls :
       /\ c # d
       /\ Returned(c, "safety")
       /\ Returned(d, "weather")

\* the item yields a headline: its title and its link are not empty once
\* stripped
Qualifies(item) ==
  Strip(OrEmpty(item.title)) # <<>> /\ Strip(OrEmpty(item.link)) # <<>>

\* the positions of the qualifying items among the first n items
QualifyingIn(items, n) == {i \in 1..Min(n, Len(items)) : Qualifies(items[i])}

\* the j-th smallest member of a set of positions
Nth(S, j) == CHOOSE i \in S : Cardinality({k \in S : k <= i}) = j

\* the headlines are those of the qualifying items among the first n items,
\* in document order
HeadlinesAreQualifyingIn(hs, items, n) ==
  /\ Len(hs) = Cardinality(QualifyingIn(items, n))
  /\ \A j \in 1..Len(hs) :
       LET item == items[Nth(QualifyingIn(items, n), j)]
       IN /\ hs[j].title = Strip(OrEmpty(item.title))
          /\ hs[j].link = Strip(OrEmpty(item.link))

\* the least n such that the first n items hold m qualifying ones, or all the
\* items when there are fewer
FirstQualifying(items, m) ==
  IF Cardinality(QualifyingIn(items, Len(items))) <= m THEN Len(items)
  ELSE CHOOSE n \in 0..Len(items) :
         /\ Cardinality(QualifyingIn(items, n)) = Max(m, 0)
         /\ \A k \in 0..Len(items) :
              Cardinality(QualifyingIn(items, k)) = Max(m, 0) => n <= k

\* C9 as stated, for max_items >= 0: the headlines are the first max_items
\* qualifying items of the feed; an item without title or link does not count
\* toward max_items.
C9_DroppedItemsDoNotCount ==
  \A c \in Calls :
    (Returned(c, "safety") /\ args[c].max_items >= 0) =>
      HeadlinesAreQualifyingIn(result[c][1].headlines, FeedOf(c).items,
                               FirstQualifying(FeedOf(c).items, args[c].max_items))

\* the number of items the loop visits: those of feed[:max_items]
VisitedCount(items, max_items) ==
  IF max_items >= 0 THEN Min(max_items, Len(items))
  ELSE Max(Len(items) + max_items, 0)

\* C9, amended: the headlines are the qualifying items among the items of
\* feed[:max_items], in document order; an item without title or link is
\* dropped and does count toward max_items.
C9_DroppedItemsCount ==
  \A c \in Calls :
    Returned(c, "safety") =>
      HeadlinesAreQualifyingIn(result[c][1].headlines, FeedOf(c).items,
                               VisitedCount(FeedOf(c).items, args[c].max_items))

C9_Witness ==
  \E c \in Calls :
    /\ Returned(c, "safety")
    /\ args[c].max_items >= 1
    /\ Len(result[c][1].headlines) < args[c].max_items
    /\ Cardinality(QualifyingIn(FeedOf(c).items, Len(FeedOf(c).items)))
         >= args[c].max_items

\* the daily loop of the call is over
DailyLoopOver(c) ==
  /\ Called(c, "weather")
  /\ Len(responses[c]) = 2
  /\ responses[c][2].status = "ok"
  /\ pc[c] # "daily"

\* C10 as stated: once the daily loop is over, daily_forecast has an entry for
\* every index below min(days, upstream days), and a field whose series is
\* missing or too short is null in it; the loop has not raised.
C10_MissingValueIsNull ==
  \A c \in Calls :
    DailyLoopOver(c) =>
      LET df == daily_forecast[Frame(c)]
      IN /\ Len(df) = Max(0, Min(args[c].days, UpstreamDays(c)))
         /\ \A i \in 1..Len(df) : FromUpstreamDay(df[i], UpstreamDaily(c), i)
         /\ pc[c] = "raised" => AttachHourly(args[c].include_hourly, PayloadOf(c))


\* the upstream hourly object of a call that attached hourly_outlook, and its
\* time series
UpstreamHourly(c) == responses[c][2].body["hourly"]
UpstreamTimes(c) == Get(UpstreamHourly(c), "time", <<>>)

\* the timestamp lies in the window of a call made at now, upper end excluded
\* or included
InHalfOpenWindow(time_str, now) ==
  now <= Instant(time_str) /\ Instant(time_str) < now + WindowHours

InClosedWindow(time_str, now) ==
  now <= Instant(time_str) /\ Instant(time_str) <= now + WindowHours

\* the positions of the series whose timestamp is in the closed window and
\* that no timestamp beyond the window precedes
KeptPositions(times, now) ==
  {i \in 1..Len(times) :
     /\ InClosedWindow(times[i], now)
     /\ \A j \in 1..(i - 1) : Instant(times[j]) <= now + WindowHours}

\* the entry is built from the upstream hour at position i
FromUpstreamHour(entry, hourly, i) ==
  /\ entry.time = hourly["time"][i]
  /\ entry.temperature_c = UpstreamAt(hourly, "temperature_2m", i)
  /\ entry.precip_probability = UpstreamAt(hourly, "precipitation_probability", i)
  /\ entry.relative_humidity = UpstreamAt(hourly, "relativehumidity_2m", i)
  /\ entry.weather_code = UpstreamAt(hourly, "weathercode", i)

\* C11 as stated, for the entries inside the window on either reading of its
\* upper end: every upstream hourly entry with now <= t < now + 24h is in
\* hourly_outlook, also when an earlier entry lies beyond the window.
C11_EveryInWindowEntryKept ==
  \A c \in Calls :
    HasHourly(c) =>
      \A i \in 1..Len(UpstreamTimes(c)) :
        InHalfOpenWindow(UpstreamTimes(c)[i], clock[c][1]) =>
          \E j \in 1..Len(result[c][1].hourly_outlook) :
            FromUpstreamHour(result[c][1].hourly_outlook[j], UpstreamHourly(c), i)

\* C11, amended: hourly_outlook holds, in upstream order and nothing else, the
\* upstream hourly entries with now <= t <= now + 24h that come before the
\* first entry with t > now + 24h; the loop stops at that entry, so an
\* in-window entry after it is not included.
C11_KeptUntilFirstPastWindow ==
  \A c \in Calls :
    HasHourly(c) =>
      LET kept == KeptPositions(UpstreamTimes(c), clock[c][1])
          outlook == result[c][1].hourly_outlook
      IN /\ Len(outlook) = Cardinality(kept)
         /\ \A j \in 1..Len(outlook) :
              FromUpstreamHour(outlook[j], UpstreamHourly(c), Nth(kept, j))

C11_Witness ==
  \E c \in Calls :
    /\ HasHourly(c)
    /\ Len(result[c][1].hourly_outlook) >= 1
    /\ \E i, j \in 1..Len(UpstreamTimes(c)) :
         /\ i < j
         /\ Instant(UpstreamTimes(c)[i]) > clock[c][1] + WindowHours
         /\ InClosedWindow(UpstreamTimes(c)[j], clock[c][1])


\* the summary a call returned has the key hourly_outlook
HasOutlookKey(c) == "hourly_outlook" \in DOMAIN result[c][1]

\* the forecast payload a call received has the key hourly
UpstreamHasHourly(c) == "hourly" \in DOMAIN responses[c][2].body

\* C12 as stated: a returned summary has hourly_outlook if and only if the
\* call was made with include_hourly true, whatever the payload contains.
C12_OutlookIffRequested ==
  \A c \in Calls :
    Returned(c, "weather") => (HasOutlookKey(c) <=> args[c].include_hourly)

\* C12, amended: a returned summary has hourly_outlook if and only if the call
\* was made with include_hourly true and the forecast payload has the key
\* hourly; it is never present when include_hourly is false, and it is absent
\* when include_hourly is true and the payload has no hourly object.
C12_OutlookIffRequestedAndSupplied ==
  \A c \in Calls :
    Returned(c, "weather") =>
      (HasOutlookKey(c) <=> (args[c].include_hourly /\ UpstreamHasHourly(c)))

C12_Witness ==
  \E c \in Calls :
    /\ Returned(c, "weather")
    /\ args[c].include_hourly
    /\ ~UpstreamHasHourly(c)
    /\ ~HasOutlookKey(c)

====
